---- MODULE Spec2Model ----
(***************************************************************************)
(* nimbuscode: a command-line client of a remote chat-completion service.  *)
(* The repository holds two implementations of the same tool:              *)
(*   "async"    src/src/main.rs        (struct NimbusCode, ini store)      *)
(*   "blocking" src/rust/src/main.rs   (free functions, json store; the    *)
(*              library src/rust/src/lib.rs repeats its helpers)           *)
(* One process invocation of either implementation is modelled: the        *)
(* persisted store, the environment variable, the command line, the        *)
(* requests put on the wire and the conversation of an interactive         *)
(* session.  Definitions of the async implementation carry the prefix      *)
(* NimbusCode_, those of the blocking one keep the names of its functions. *)
(***************************************************************************)
EXTENDS Integers, Sequences, FiniteSets, TLC

(* ------------------------------------------------------------------ *)
(* Option<T>: None is the empty tuple, Some(v) the one-element tuple.   *)
(* ------------------------------------------------------------------ *)
None == <<>>
Some(v) == <<v>>
IsSome(o) == Len(o) = 1
Unwrap(o) == o[1]
UnwrapOr(o, d) == IF Len(o) = 1 THEN o[1] ELSE d

(* ------------------------------------------------------------------ *)
(* Bounds of the model.                                                 *)
(* ------------------------------------------------------------------ *)
\* user turns one interactive session may go through
MaxTurns == 3

(* ------------------------------------------------------------------ *)
(* Text.  A string is a sequence of tokens; a token is one character    *)
(* of operator input or one literal piece of a format string.           *)
(* ------------------------------------------------------------------ *)
Whitespace == {" ", "\n", "\t"}

\* char::to_lowercase on the characters the inputs use
to_lowercase_char(c) ==
    CASE c = "E" -> "e" [] c = "X" -> "x" [] c = "I" -> "i" [] c = "T" -> "t"
      [] c = "Q" -> "q" [] c = "U" -> "u" [] c = "H" -> "h"
      [] OTHER -> c

\* str::to_lowercase
to_lowercase(s) == [i \in 1..Len(s) |-> to_lowercase_char(s[i])]

RECURSIVE trim_start(_)
trim_start(s) ==
    IF s # <<>> /\ Head(s) \in Whitespace THEN trim_start(Tail(s)) ELSE s

RECURSIVE trim_end(_)
trim_end(s) ==
    IF s # <<>> /\ s[Len(s)] \in Whitespace
    THEN trim_end(SubSeq(s, 1, Len(s) - 1))
    ELSE s

\* str::trim
trim(s) == trim_end(trim_start(s))

\* the sentinel tokens of the interactive loops
Tok_exit == <<"e", "x", "i", "t">>
Tok_quit == <<"q", "u", "i", "t">>
Tok_q == <<"q">>

\* credentials: the empty one and three non-empty ones of different lengths
KeyEmpty == <<>>
KeyStored == <<"s", "k", "-", "o", "r", "1">>
KeyEnv == <<"e", "n", "v">>
KeyNew == <<"n", "e", "w", "9">>

\* Config::default / the constants of the blocking implementation
DEFAULT_MODEL == "openrouter/auto"
DEFAULT_MAX_TOKENS == 1024
DEFAULT_TEMPERATURE == "0.7"
\* the constant of the async implementation
NimbusCode_DEFAULT_MODEL == "mistralai/mistral-7b-instruct:free"

Config_default ==
    [api_key |-> Some(KeyEmpty), model |-> Some(DEFAULT_MODEL),
     max_tokens |-> Some(DEFAULT_MAX_TOKENS), temperature |-> Some(DEFAULT_TEMPERATURE)]


(* ------------------------------------------------------------------ *)
(* The persisted store.  state "absent": no file; "corrupt": a file the *)
(* loader rejects; "ok": a file holding data.  A field the file does    *)
(* not hold is None (the ini store has optional keys; the json store    *)
(* needs all four).                                                     *)
(* ------------------------------------------------------------------ *)
NoData == [api_key |-> None, model |-> None, max_tokens |-> None, temperature |-> None]
StoreAbsent == [state |-> "absent", data |-> NoData]
StoreCorrupt == [state |-> "corrupt", data |-> NoData]
StoreOf(d) == [state |-> "ok", data |-> d]

\* ini files of the async implementation: keys API.api_key and API.default_model
IniStores ==
    { StoreOf([NoData EXCEPT !.api_key = k, !.model = m]) :
        k \in {None, Some(KeyEmpty), Some(KeyStored)},
        m \in {None, Some("stored/model")} }

\* json files of the blocking implementation: a serialised Config
JsonStores ==
    { StoreOf([Config_default EXCEPT !.api_key = Some(k)]) : k \in {KeyEmpty, KeyStored} }
    \cup
    { StoreOf([api_key |-> Some(k), model |-> Some("stored/model"),
               max_tokens |-> Some(256), temperature |-> Some("0.2")]) :
        k \in {KeyEmpty, KeyStored} }

\* OPENROUTER_API_KEY: unset, set to the empty string, set to a key
EnvValues == {None, Some(KeyEmpty), Some(KeyEnv)}

\* how a write of the store file can end: written; the file could not be
\* created (the old file stays); the file was created, which truncates it,
\* and the write failed part-way
SaveOutcomes == {"ok", "create_fail", "write_fail"}

(* ------------------------------------------------------------------ *)
(* Messages, requests, responses.                                       *)
(* ------------------------------------------------------------------ *)
Msg(r, c) == [role |-> r, content |-> c]

(* ------------------------------------------------------------------ *)
(* extract_code_blocks.  The library (src/rust/src/lib.rs) matches a    *)
(* regular expression; the binary (src/rust/src/main.rs) walks the      *)
(* events of a markdown parser.  A text is a sequence of characters;    *)
(* Tick stands for the backtick.                                        *)
(* ------------------------------------------------------------------ *)
Tick == "tick"

\* the characters the class \w holds, of those the documents use
WordChars == {"a", "P"}

\* how many times c is repeated in s from position i on
RECURSIVE run_length(_, _, _)
run_length(s, i, c) ==
    IF i <= Len(s) /\ s[i] = c THEN 1 + run_length(s, i + 1, c) ELSE 0

\* how many characters of \w follow in s from position i on
RECURSIVE word_run(_, _)
word_run(s, i) ==
    IF i <= Len(s) /\ s[i] \in WordChars THEN 1 + word_run(s, i + 1) ELSE 0

\* the first position j >= i where s goes on with a line break and three
\* backticks; 0 when there is none
RECURSIVE find_close(_, _)
find_close(s, j) ==
    IF j + 3 > Len(s) THEN 0
    ELSE IF s[j] = "\n" /\ s[j + 1] = Tick /\ s[j + 2] = Tick /\ s[j + 3] = Tick THEN j
    ELSE find_close(s, j + 1)

\* the match of  ```(?:\w+)?\n([\s\S]*?)\n```  that starts at position i:
\* three backticks, the longest run of \w, a line break, the shortest
\* text that is followed by a line break and three backticks
regex_match_at(s, i) ==
    LET nl == i + 3 + word_run(s, i + 3)
        close == find_close(s, nl + 1)
    IN  IF /\ i + 2 <= Len(s)
           /\ s[i] = Tick /\ s[i + 1] = Tick /\ s[i + 2] = Tick
           /\ nl <= Len(s)
           /\ s[nl] = "\n"
           /\ close # 0
        THEN [ok |-> TRUE, cap |-> SubSeq(s, nl + 1, close - 1), end |-> close + 4]
        ELSE [ok |-> FALSE, cap |-> <<>>, end |-> 0]

\* Regex::captures_iter mapped to group 1: the matches from left to
\* right, each search starting where the match before ended
RECURSIVE captures_iter(_, _)
captures_iter(s, i) ==
    IF i > Len(s) THEN <<>>
    ELSE IF regex_match_at(s, i).ok
    THEN <<regex_match_at(s, i).cap>> \o captures_iter(s, regex_match_at(s, i).end)
    ELSE captures_iter(s, i + 1)

\* extract_code_blocks of the library
lib_extract_code_blocks(markdown_text_) == captures_iter(markdown_text_, 1)

\* the lines of a text, each with the note whether a line break ends it
RECURSIVE scan_lines(_, _, _)
scan_lines(s, i, cur) ==
    IF i > Len(s)
    THEN IF cur = <<>> THEN <<>> ELSE <<[text |-> cur, nl |-> FALSE]>>
    ELSE IF s[i] = "\n"
    THEN <<[text |-> cur, nl |-> TRUE]>> \o scan_lines(s, i + 1, <<>>)
    ELSE scan_lines(s, i + 1, Append(cur, s[i]))

\* the parser's test for the line that opens a fenced code block: at most
\* three columns of indentation, three or more backticks, no backtick in
\* the info string
scan_code_fence(line) ==
    LET sp == run_length(line, 1, " ")
        n == run_length(line, sp + 1, Tick)
    IN  /\ sp <= 3
        /\ n >= 3
        /\ \A j \in (sp + n + 1)..Len(line) : line[j] # Tick

\* the parser's test for the line that closes a fenced code block opened
\* with n_fence_char backticks: as many backticks or more, then blanks only
scan_closing_code_fence(line, n_fence_char) ==
    LET sp == run_length(line, 1, " ")
        n == run_length(line, sp + 1, Tick)
    IN  /\ sp <= 3
        /\ n >= n_fence_char
        /\ \A j \in (sp + n + 1)..Len(line) : line[j] = " "

\* a line of a fenced code block as the parser hands it on: up to `indent`
\* leading columns (the indentation of the opening fence) are removed
code_text(line, indent) ==
    LET sp == run_length(line.text, 1, " ")
        cut == IF sp < indent THEN sp ELSE indent
    IN  SubSeq(line.text, cut + 1, Len(line.text)) \o (IF line.nl THEN <<"\n">> ELSE <<>>)

Event(kind, text) == [kind |-> kind, text |-> text]

\* MarkdownParser::new(..) as an iterator, on documents of paragraphs and
\* fenced code blocks (no line of theirs is indented by four columns
\* outside a fence): a fenced block yields Start, one Text per line with
\* its line break, and End, at the closing fence or at the end of input;
\* a paragraph line yields a Text
RECURSIVE MarkdownParser(_, _, _, _, _)
MarkdownParser(lines, i, in_fence, n_fence_char, indent) ==
    IF i > Len(lines)
    THEN IF in_fence THEN <<Event("End(CodeBlock)", <<>>)>> ELSE <<>>
    ELSE IF ~in_fence
    THEN IF scan_code_fence(lines[i].text)
         THEN <<Event("Start(CodeBlock)", <<>>)>>
              \o MarkdownParser(lines, i + 1, TRUE,
                     run_length(lines[i].text, run_length(lines[i].text, 1, " ") + 1, Tick),
                     run_length(lines[i].text, 1, " "))
         ELSE (IF trim(lines[i].text) = <<>> THEN <<>>
               ELSE <<Event("Text", trim(lines[i].text))>>)
              \o MarkdownParser(lines, i + 1, FALSE, 0, 0)
    ELSE IF scan_closing_code_fence(lines[i].text, n_fence_char)
    THEN <<Event("End(CodeBlock)", <<>>)>> \o MarkdownParser(lines, i + 1, FALSE, 0, 0)
    ELSE <<Event("Text", code_text(lines[i], indent))>>
         \o MarkdownParser(lines, i + 1, TRUE, n_fence_char, indent)

\* extract_code_blocks of the binary, the loop over the events
RECURSIVE extract_code_blocks_loop(_, _, _, _, _)
extract_code_blocks_loop(events, i, in_code_block, current_block, blocks) ==
    IF i > Len(events) THEN blocks
    ELSE CASE events[i].kind = "Start(CodeBlock)" ->
                extract_code_blocks_loop(events, i + 1, TRUE, current_block, blocks)
           [] events[i].kind = "End(CodeBlock)" ->
                IF current_block # <<>>
                THEN extract_code_blocks_loop(events, i + 1, FALSE, <<>>,
                                              Append(blocks, current_block))
                ELSE extract_code_blocks_loop(events, i + 1, FALSE, current_block, blocks)
           [] events[i].kind = "Text" ->
                IF in_code_block
                THEN extract_code_blocks_loop(events, i + 1, in_code_block,
                                              current_block \o events[i].text, blocks)
                ELSE extract_code_blocks_loop(events, i + 1, in_code_block,
                                              current_block, blocks)
           [] OTHER ->
                extract_code_blocks_loop(events, i + 1, in_code_block, current_block, blocks)

\* extract_code_blocks of the binary
extract_code_blocks(markdown_text_) ==
    extract_code_blocks_loop(
        MarkdownParser(scan_lines(markdown_text_, 1, <<>>), 1, FALSE, 0, 0),
        1, FALSE, <<>>, <<>>)

\* the text the operator gives a single-shot command, and the content of
\* the source file of improve / explain
ArgText == <<"s", "o", "r", "t">>
FileText == <<"f", "n", "(", ")">>

\* the token of a markdown fence marker (three backticks)
Fence == "[fence]"

\* answers of the service: a markdown text with two fenced code blocks
\* (the first tagged), and a text with none
Answer1 ==
    <<"P", "\n", Tick, Tick, Tick, "a", "\n", "a", "\n", Tick, Tick, Tick, "\n",
      Tick, Tick, Tick, "\n", "P", "\n", Tick, Tick, Tick, "\n">>
Answer2 == <<"n", "o">>

\* the content of a file found at the save path
OldFile == <<"o", "l", "d">>

\* an HTTP exchange as the client sees it: the transport failed, or a
\* status and a raw body came back; choices / data are what the body
\* parses to (None: it does not parse as that type)
Resp(st, raw, ch, da) ==
    [transport_ok |-> TRUE, status |-> st, raw |-> raw, choices |-> ch, data |-> da]
RespTransportError ==
    [transport_ok |-> FALSE, status |-> 0, raw |-> "", choices |-> None, data |-> None]

CompletionResponses ==
    { RespTransportError,
      Resp(200, "one-choice", Some(<<Msg("assistant", Answer1)>>), None),
      Resp(201, "two-choices", Some(<<Msg("assistant", Answer2), Msg("assistant", Answer1)>>), None),
      Resp(200, "no-choices", Some(<<>>), None),
      Resp(200, "not-json", None, None),
      Resp(429, "rate-limited", None, None),
      Resp(500, "upstream-down", Some(<<Msg("assistant", Answer1)>>), None) }

Price(p, c) == [prompt |-> p, completion |-> c]

\* prices: 0 is 0.0, 5 a price of ordinary size, TinyPrice a positive
\* price (such as 1e-46) below the smallest positive f32
TinyPrice == 1

\* a JSON number read into an f32 field: what lies below the range of f32
\* is rounded to 0.0
as_f32(p) == IF p = TinyPrice THEN 0 ELSE p
ModelInfo(id, pr) == [id |-> id, pricing |-> pr]

ModelsResponses ==
    { RespTransportError,
      Resp(200, "models", None,
           Some(<< ModelInfo("free-1", Some(Price(Some(0), Some(0)))),
                   ModelInfo("paid-completion", Some(Price(Some(0), Some(5)))),
                   ModelInfo("no-pricing", None),
                   ModelInfo("paid-prompt", Some(Price(Some(5), Some(0)))),
                   ModelInfo("tiny-price", Some(Price(Some(TinyPrice), Some(0)))),
                   ModelInfo("free-2", Some(Price(Some(0), Some(0)))) >>)),
      Resp(200, "models-partial", None,
           Some(<< ModelInfo("prompt-only", Some(Price(Some(0), None))),
                   ModelInfo("free-1", Some(Price(Some(0), Some(0)))) >>)),
      Resp(200, "not-json", None, None),
      Resp(401, "bad-key", None, None) }

\* StatusCode::is_success
is_success(status) == status >= 200 /\ status <= 299

\* the result of an invocation: still running, finished, or failed
Running == [tag |-> "Running", status |-> None, body |-> None]
Ok == [tag |-> "Ok", status |-> None, body |-> None]
Err(tag) == [tag |-> tag, status |-> None, body |-> None]
ErrApi(st, b) == [tag |-> "ApiError", status |-> st, body |-> b]

Headers(auth, ct, referer, title) ==
    [Authorization |-> auth, ContentType |-> ct, HTTPReferer |-> referer, XTitle |-> title]

Bearer(key) == <<"Bearer ">> \o key

(* ------------------------------------------------------------------ *)
(* The command line.                                                    *)
(* ------------------------------------------------------------------ *)
Cmd(name) ==
    [name |-> name, model |-> None, api_key |-> None, set_model |-> None,
     set_max_tokens |-> None, set_temperature |-> None, show |-> FALSE,
     system |-> None, with_file |-> FALSE, file_ok |-> TRUE, save |-> FALSE]
NoCmd == Cmd("none")

SingleShot == {"ask", "generate", "improve", "explain", "cloud", "mobile"}
ReadsFile == {"improve", "explain"}

\* src/src/main.rs: every request command takes --model
NimbusCode_Commands ==
    { [Cmd("config") EXCEPT !.api_key = k] : k \in {None, Some(KeyNew)} }
    \cup { [Cmd(n) EXCEPT !.model = m] :
             n \in (SingleShot \ ReadsFile) \cup {"interactive"},
             m \in {None, Some("flag/model")} }
    \cup { [Cmd(n) EXCEPT !.model = m, !.with_file = TRUE, !.file_ok = f] :
             n \in ReadsFile, m \in {None, Some("flag/model")}, f \in BOOLEAN }
    \cup { [Cmd("generate") EXCEPT !.save = TRUE],
           [Cmd("improve") EXCEPT !.with_file = TRUE, !.save = TRUE] }
    \cup { Cmd("models") }

\* src/rust/src/main.rs: no --model on request commands; ask takes --system
Commands ==
    { [Cmd("config") EXCEPT !.api_key = k, !.set_model = m, !.set_max_tokens = t,
                            !.set_temperature = te, !.show = sh] :
        k \in {None, Some(KeyNew)}, m \in {None, Some("set/model")},
        t \in {None, Some(512)}, te \in {None, Some("0.1")}, sh \in BOOLEAN }
    \cup { [Cmd("ask") EXCEPT !.system = s, !.with_file = w, !.file_ok = f] :
             s \in {None, Some(<<"custom system">>)}, w \in BOOLEAN, f \in BOOLEAN }
    \cup { Cmd(n) : n \in {"generate", "cloud", "mobile", "interactive", "models"} }
    \cup { [Cmd(n) EXCEPT !.with_file = TRUE, !.file_ok = f] : n \in ReadsFile, f \in BOOLEAN }
    \cup { [Cmd(n) EXCEPT !.save = TRUE] : n \in {"ask", "generate", "cloud", "mobile"} }
    \cup { [Cmd("improve") EXCEPT !.with_file = TRUE, !.save = TRUE] }

(* ------------------------------------------------------------------ *)
(* State.                                                               *)
(* ------------------------------------------------------------------ *)
VARIABLES
    impl,       \* "async" | "blocking": which program runs
    disk,       \* the persisted store
    env,        \* the environment variable OPENROUTER_API_KEY
    pc,         \* "init" "dispatch" "awaiting" "inflight" "displaying" "done"
    cmd,        \* the parsed command line
    config,     \* async: NimbusCode.config; blocking: the local of cmd_config
    api_key,    \* async: NimbusCode.api_key
    history,    \* async: `messages` of interactive (system prompt first);
                \* blocking: `history` of cmd_interactive
    netLog,     \* the HTTP requests issued so far, in order
    outcome,    \* the result of the invocation
    answer,     \* the reply a request returned, before it is displayed
    stdout,     \* the answers and listings emitted to the caller
    storeOps,   \* reads and writes of the persisted store, in order
    response,   \* the HTTP response received last (None before the first)
    linesRead,  \* the input lines an interactive session has read, in order
    markdown_text,  \* the text handed to extract_code_blocks
    extractor,      \* which extract_code_blocks ran: "none" | "lib" | "main"
    code_blocks,    \* the strings extract_code_blocks returned
    save_file       \* the file at the save path (None: there is none)

\* the state of a call of extract_code_blocks
extractVars == <<markdown_text, extractor, code_blocks>>

vars == <<impl, disk, env, pc, cmd, config, api_key, history, netLog, outcome,
          answer, stdout, storeOps, response, linesRead, markdown_text, extractor,
          code_blocks, save_file>>

\* the state before main runs, but for the file at the save path
InitProgram ==
    /\ impl \in {"async", "blocking"}
    /\ disk \in {StoreAbsent, StoreCorrupt}
                  \cup (IF impl = "async" THEN IniStores ELSE JsonStores)
    /\ env \in EnvValues
    /\ pc = "init"
    /\ cmd = NoCmd
    /\ config = NoData
    /\ api_key = None
    /\ history = <<>>
    /\ netLog = <<>>
    /\ outcome = Running
    /\ answer = <<>>
    /\ stdout = <<>>
    /\ storeOps = <<>>
    /\ response = None
    /\ linesRead = <<>>
    /\ markdown_text = <<>>
    /\ extractor = "none"
    /\ code_blocks = <<>>

Init ==
    /\ InitProgram
    /\ save_file = None


(* ------------------------------------------------------------------ *)
(* Shared pieces of the two programs.                                   *)
(* ------------------------------------------------------------------ *)
\* what a failed or finished write leaves in the store file: File::create
\* truncates, so a write that fails part-way leaves an empty or cut file.
\* An empty file is an empty ini but no json document.
AfterSave(im, old, data, how) ==
    CASE how = "ok" -> {StoreOf(data)}
      [] how = "create_fail" -> {old}
      [] OTHER -> IF im = "async" THEN {StoreCorrupt, StoreOf(NoData)} ELSE {StoreCorrupt}

\* File::create + write_all, fs::write: the file at the save path after
\* a write of `content` that succeeds, fails to create the file (it stays
\* as it was) or fails once the file is created and truncated
AfterWrite(old, content, how) ==
    CASE how = "ok" -> {Some(content)}
      [] how = "create_fail" -> {old}
      [] OTHER -> {Some(<<>>)}

\* the operator's input lines as read_line returns them (with the line
\* terminator), and the empty string read_line yields at end of input
Lines ==
    { <<"h", "i", "\n">>,
      <<"e", "x", "i", "t", "\n">>,
      <<" ", "Q", "U", "I", "T", " ", "\n">>,
      <<"q", "\n">>,
      <<>> }

\* the user turns the conversation holds
UserTurns(h) == Cardinality({i \in 1..Len(h) : h[i].role = "user"})

(* ------------------------------------------------------------------ *)
(* The async implementation, src/src/main.rs.                           *)
(* ------------------------------------------------------------------ *)
\* NimbusCode::new, the credential: the environment first, then the store
NimbusCode_new_api_key(envv, cfg) ==
    IF IsSome(envv) THEN envv
    ELSE IF IsSome(cfg.api_key) /\ Unwrap(cfg.api_key) # <<>> THEN cfg.api_key
    ELSE None

\* main up to the match: parse the command line, then NimbusCode::new
NimbusCode_new(c) ==
    /\ pc = "init"
    /\ impl = "async"
    /\ cmd' = c
    /\ IF disk.state = "corrupt"
       THEN /\ storeOps' = Append(storeOps, "read")
            /\ outcome' = Err("ConfigError")
            /\ pc' = "done"
            /\ UNCHANGED <<config, api_key>>
       ELSE /\ storeOps' = IF disk.state = "ok" THEN Append(storeOps, "read") ELSE storeOps
            /\ config' = disk.data
            /\ api_key' = NimbusCode_new_api_key(env, disk.data)
            /\ pc' = "dispatch"
            /\ UNCHANGED outcome
    /\ UNCHANGED <<impl, disk, env, history, netLog, answer, stdout,
                   response, linesRead>>
    /\ UNCHANGED extractVars
    /\ UNCHANGED save_file

\* Commands::Config: set_api_key (the in-memory ini is set, the file is
\* written, then the api_key field is set), or the hint to pass --api-key
NimbusCode_set_api_key(how) ==
    /\ pc = "dispatch"
    /\ impl = "async"
    /\ cmd.name = "config"
    /\ IF IsSome(cmd.api_key)
       THEN /\ config' = [config EXCEPT !.api_key = cmd.api_key]
            /\ disk' \in AfterSave(impl, disk, config', how)
            /\ storeOps' = Append(storeOps, "write")
            /\ IF how = "ok"
               THEN /\ api_key' = cmd.api_key
                    /\ outcome' = Ok
               ELSE /\ api_key' = api_key
                    /\ outcome' = Err("ConfigError")
       ELSE /\ how = "ok"
            /\ outcome' = Ok
            /\ UNCHANGED <<config, disk, storeOps, api_key>>
    /\ pc' = "done"
    /\ UNCHANGED <<impl, env, cmd, history, netLog, answer, stdout,
                   response, linesRead>>
    /\ UNCHANGED extractVars
    /\ UNCHANGED save_file

\* the system prompt each method of NimbusCode sends
NimbusCode_system(name) ==
    CASE name \in {"ask", "interactive"} -> <<"You are a helpful coding assistant.">>
      [] name = "generate" -> <<"You are a code generator.">>
      [] name = "improve" -> <<"You are a code reviewer.">>
      [] name = "explain" -> <<"You are a code explainer.">>
      [] name = "cloud" -> <<"You are a cloud deployment expert.">>
      [] OTHER -> <<"You are a mobile development expert.">>

\* the user message each single-shot method formats
NimbusCode_user(name) ==
    CASE name = "ask" -> ArgText
      [] name = "generate" -> <<"Generate code for: ">> \o ArgText
      [] name = "improve" -> <<"Improve this code:", "\n", "\n", Fence, "\n">> \o FileText \o <<"\n", Fence>>
      [] name = "explain" -> <<"Explain this code:", "\n", "\n", Fence, "\n">> \o FileText \o <<"\n", Fence>>
      [] name = "cloud" -> <<"Provide deployment instructions for ", "aws", " for: ">> \o ArgText
      [] OTHER -> <<"Provide ", "cross", " platform mobile development guidance for: ">> \o ArgText

\* ask, generate, improve, explain, cloud, mobile: the messages they build
NimbusCode_messages(name) ==
    <<Msg("system", NimbusCode_system(name)), Msg("user", NimbusCode_user(name))>>

\* make_request: the model of the request
NimbusCode_model(model, cfg) ==
    IF IsSome(model) THEN Unwrap(model) ELSE UnwrapOr(cfg.model, NimbusCode_DEFAULT_MODEL)

\* make_request: the request put on the wire (a ChatRequest has no
\* max_tokens and no temperature)
NimbusCode_make_request(key, messages, model, cfg) ==
    [endpoint |-> "chat/completions",
     headers |-> Headers(Some(Bearer(key)), Some("application/json"),
                         Some("https://github.com/naelmohammad/nimbuscode"),
                         Some("NimbusCode")),
     model |-> Some(NimbusCode_model(model, cfg)),
     messages |-> messages,
     max_tokens |-> None,
     temperature |-> None]

\* make_request up to send(): fail on a missing key, else issue the request
NimbusCode_send(messages) ==
    IF api_key = None
    THEN /\ outcome' = Err("CredentialMissing")
         /\ pc' = "done"
         /\ UNCHANGED netLog
    ELSE /\ netLog' = Append(netLog,
                 NimbusCode_make_request(Unwrap(api_key), messages, cmd.model, config))
         /\ pc' = "inflight"
         /\ UNCHANGED outcome

\* the arms of main that call one method: the source file is read first
\* (improve, explain), then the method builds its messages and calls
\* make_request
NimbusCode_single_shot ==
    /\ pc = "dispatch"
    /\ impl = "async"
    /\ cmd.name \in SingleShot
    /\ IF cmd.with_file /\ ~cmd.file_ok
       THEN /\ outcome' = Err("IoError")
            /\ pc' = "done"
            /\ UNCHANGED netLog
       ELSE NimbusCode_send(NimbusCode_messages(cmd.name))
    /\ UNCHANGED <<impl, disk, env, cmd, config, api_key, history, answer, stdout, storeOps,
                   response, linesRead>>
    /\ UNCHANGED extractVars
    /\ UNCHANGED save_file

\* interactive, before the loop
NimbusCode_interactive ==
    /\ pc = "dispatch"
    /\ impl = "async"
    /\ cmd.name = "interactive"
    /\ history' = <<Msg("system", NimbusCode_system("interactive"))>>
    /\ pc' = "awaiting"
    /\ UNCHANGED <<impl, disk, env, cmd, config, api_key, netLog, outcome, answer, stdout, storeOps,
                   response, linesRead>>
    /\ UNCHANGED extractVars
    /\ UNCHANGED save_file

\* the test that ends the loop of interactive
NimbusCode_is_sentinel(user_input) ==
    \/ to_lowercase(user_input) = Tok_exit
    \/ to_lowercase(user_input) = Tok_quit

\* interactive, one pass of the loop up to the request: read a line (the
\* read may fail), trim it, leave on a sentinel, else push the user
\* message and send the whole of `messages`
NimbusCode_interactive_read(read_ok, line) ==
    /\ pc = "awaiting"
    /\ linesRead' = IF read_ok THEN Append(linesRead, line) ELSE linesRead
    /\ impl = "async"
    /\ IF ~read_ok
       THEN /\ outcome' = Err("IoError")
            /\ pc' = "done"
            /\ UNCHANGED <<history, netLog>>
       ELSE IF NimbusCode_is_sentinel(trim(line))
       THEN /\ outcome' = Ok
            /\ pc' = "done"
            /\ UNCHANGED <<history, netLog>>
       ELSE /\ UserTurns(history) < MaxTurns
            /\ history' = Append(history, Msg("user", trim(line)))
            /\ NimbusCode_send(history')
    /\ UNCHANGED <<impl, disk, env, cmd, config, api_key, answer, stdout, storeOps,
                   response>>
    /\ UNCHANGED extractVars
    /\ UNCHANGED save_file


\* list_models: the entries printed as free; a price that is missing or
\* no number counts as 1.0
NimbusCode_free_models(data) ==
    SelectSeq(data, LAMBDA m :
        /\ IsSome(m.pricing)
        /\ UnwrapOr(Unwrap(m.pricing).prompt, 1) = 0
        /\ UnwrapOr(Unwrap(m.pricing).completion, 1) = 0)

\* list_models up to send(): the GET carries two headers only
NimbusCode_list_models ==
    /\ pc = "dispatch"
    /\ impl = "async"
    /\ cmd.name = "models"
    /\ IF api_key = None
       THEN /\ outcome' = Err("CredentialMissing")
            /\ pc' = "done"
            /\ UNCHANGED netLog
       ELSE /\ netLog' = Append(netLog,
                    [endpoint |-> "models",
                     headers |-> Headers(Some(Bearer(Unwrap(api_key))),
                                         Some("application/json"), None, None),
                     model |-> None, messages |-> <<>>,
                     max_tokens |-> None, temperature |-> None])
            /\ pc' = "inflight"
            /\ UNCHANGED outcome
    /\ UNCHANGED <<impl, disk, env, cmd, config, api_key, history, answer, stdout, storeOps,
                   response, linesRead>>
    /\ UNCHANGED extractVars
    /\ UNCHANGED save_file

\* make_request after send(): the error a response is turned into, or Ok
NimbusCode_classify(resp) ==
    IF ~resp.transport_ok THEN Err("NetworkError")
    ELSE IF ~is_success(resp.status) THEN ErrApi(Some(resp.status), Some(resp.raw))
    ELSE IF resp.choices = None THEN Err("ParseError")
    ELSE Ok

\* the callers of make_request: response.choices[0].message.content; the
\* index panics on an empty list
NimbusCode_first_choice(choices) ==
    IF Len(choices) = 0 THEN None ELSE Some(choices[1].content)

\* the rest of make_request / list_models and of its caller once the
\* response is in
NimbusCode_response(resp, how) ==
    /\ pc = "inflight"
    /\ response' = Some(resp)
    /\ impl = "async"
    /\ IF netLog[Len(netLog)].endpoint = "models"
       THEN /\ resp \in ModelsResponses
            /\ pc' = "done"
            /\ answer' = answer
            /\ save_file' = save_file
            /\ IF ~resp.transport_ok THEN outcome' = Err("NetworkError") /\ stdout' = stdout
               ELSE IF ~is_success(resp.status)
               THEN outcome' = ErrApi(Some(resp.status), Some(resp.raw)) /\ stdout' = stdout
               ELSE IF resp.data = None THEN outcome' = Err("ParseError") /\ stdout' = stdout
               ELSE /\ outcome' = Ok
                    /\ stdout' = Append(stdout,
                           [i \in 1..Len(NimbusCode_free_models(Unwrap(resp.data))) |->
                               NimbusCode_free_models(Unwrap(resp.data))[i].id])
       ELSE /\ resp \in CompletionResponses
            /\ IF NimbusCode_classify(resp) # Ok
               THEN /\ outcome' = NimbusCode_classify(resp)
                    /\ pc' = "done"
                    /\ UNCHANGED <<answer, stdout, save_file>>
               ELSE IF NimbusCode_first_choice(Unwrap(resp.choices)) = None
               THEN /\ outcome' = Err("Panic")
                    /\ pc' = "done"
                    /\ UNCHANGED <<answer, stdout, save_file>>
               ELSE IF cmd.name = "interactive"
               THEN /\ answer' = Unwrap(NimbusCode_first_choice(Unwrap(resp.choices)))
                    /\ pc' = "displaying"
                    /\ UNCHANGED <<outcome, stdout, save_file>>
               ELSE IF cmd.save
               THEN /\ answer' = Unwrap(NimbusCode_first_choice(Unwrap(resp.choices)))
                    /\ save_file' \in AfterWrite(save_file, answer', how)
                    /\ outcome' = IF how = "ok" THEN Ok ELSE Err("IoError")
                    /\ pc' = "done"
                    /\ UNCHANGED stdout
               ELSE /\ answer' = Unwrap(NimbusCode_first_choice(Unwrap(resp.choices)))
                    /\ stdout' = Append(stdout, answer')
                    /\ outcome' = Ok
                    /\ pc' = "done"
                    /\ UNCHANGED save_file
    /\ UNCHANGED <<impl, disk, env, cmd, config, api_key, history, netLog, storeOps,
                   linesRead>>
    /\ UNCHANGED extractVars
    /\ (how # "ok") => (cmd.save /\ outcome' = Err("IoError"))

\* interactive with the reply printed and not pushed
NimbusCode_interactive_display_no_push ==
    /\ pc = "displaying"
    /\ impl = "async"
    /\ stdout' = Append(stdout, answer)
    /\ pc' = "awaiting"
    /\ UNCHANGED <<impl, disk, env, cmd, config, api_key, history, netLog, outcome, answer,
                   storeOps, response, linesRead>>
    /\ UNCHANGED extractVars
    /\ UNCHANGED save_file

\* interactive, the end of a pass of the loop: print the reply, push it
NimbusCode_interactive_display ==
    /\ pc = "displaying"
    /\ impl = "async"
    /\ stdout' = Append(stdout, answer)
    /\ history' = Append(history, Msg("assistant", answer))
    /\ pc' = "awaiting"
    /\ UNCHANGED <<impl, disk, env, cmd, config, api_key, netLog, outcome, answer, storeOps,
                   response, linesRead>>
    /\ UNCHANGED extractVars
    /\ UNCHANGED save_file

(* ------------------------------------------------------------------ *)
(* The blocking implementation, src/rust/src/main.rs (its helpers are   *)
(* repeated in src/rust/src/lib.rs).                                    *)
(* ------------------------------------------------------------------ *)
\* load_config with Config::default() returned for a file that cannot
\* be read or parsed
load_config_or_default(d) ==
    IF d.state = "absent" THEN [ok |-> TRUE, config |-> Config_default]
    ELSE IF d.state = "corrupt" \/ \E f \in DOMAIN d.data : d.data[f] = None
    THEN [ok |-> TRUE, config |-> Config_default]
    ELSE [ok |-> TRUE, config |-> d.data]

\* load_config: the defaults when there is no file, an error when the
\* file does not parse as a Config (all four fields are required)
load_config(d) ==
    IF d.state = "absent" THEN [ok |-> TRUE, config |-> Config_default]
    ELSE IF d.state = "corrupt" \/ \E f \in DOMAIN d.data : d.data[f] = None
    THEN [ok |-> FALSE, config |-> NoData]
    ELSE [ok |-> TRUE, config |-> d.data]

\* the reads of the store file one load_config makes
load_config_ops(d) == IF d.state = "absent" THEN <<>> ELSE <<"read">>

\* get_api_key: the stored key when it is not empty, else the environment
\* variable (unset reads as empty); None when the result is empty, where
\* the program prints the hint and exits with status 1
get_api_key(cfg, envv) ==
    LET key == IF Unwrap(cfg.api_key) # <<>> THEN Unwrap(cfg.api_key)
               ELSE UnwrapOr(envv, <<>>)
    IN  IF key = <<>> THEN None ELSE Some(key)

\* query_openrouter with the two pushes swapped: the system message last
query_openrouter_messages_system_last(prompt, system_prompt) ==
    <<Msg("user", prompt)>>
    \o (IF IsSome(system_prompt) THEN <<Msg("system", Unwrap(system_prompt))>> ELSE <<>>)

\* query_openrouter: the message list
query_openrouter_messages(prompt, system_prompt) ==
    (IF IsSome(system_prompt) THEN <<Msg("system", Unwrap(system_prompt))>> ELSE <<>>)
    \o <<Msg("user", prompt)>>

\* query_openrouter: the request put on the wire
query_openrouter_request(key, cfg, prompt, system_prompt) ==
    [endpoint |-> "chat/completions",
     headers |-> Headers(Some(Bearer(key)), Some("application/json"),
                         Some("https://github.com/cline/cline"), None),
     model |-> cfg.model,
     messages |-> query_openrouter_messages(prompt, system_prompt),
     max_tokens |-> cfg.max_tokens,
     temperature |-> cfg.temperature]

\* query_openrouter up to send(): load_config, then get_api_key (which
\* loads the store again), then the request; d_key is the store as the
\* second load finds it
query_openrouter_racing(prompt, system_prompt, d_key) ==
    IF ~load_config(disk).ok
    THEN /\ outcome' = Err("ConfigError")
         /\ pc' = "done"
         /\ storeOps' = storeOps \o load_config_ops(disk)
         /\ UNCHANGED netLog
    ELSE IF ~load_config(d_key).ok
    THEN /\ outcome' = Err("ConfigError")
         /\ pc' = "done"
         /\ storeOps' = storeOps \o load_config_ops(disk) \o load_config_ops(d_key)
         /\ UNCHANGED netLog
    ELSE /\ storeOps' = storeOps \o load_config_ops(disk) \o load_config_ops(d_key)
         /\ IF get_api_key(load_config(d_key).config, env) = None
            THEN /\ outcome' = Err("CredentialMissing")
                 /\ pc' = "done"
                 /\ UNCHANGED netLog
            ELSE /\ netLog' = Append(netLog,
                         query_openrouter_request(
                             Unwrap(get_api_key(load_config(d_key).config, env)),
                             load_config(disk).config, prompt, system_prompt))
                 /\ pc' = "inflight"
                 /\ UNCHANGED outcome

\* query_openrouter when nobody else writes the store meanwhile
query_openrouter(prompt, system_prompt) == query_openrouter_racing(prompt, system_prompt, disk)


\* main up to the match: parse the command line, then ensure_config_dir,
\* which writes the default Config when there is no store file
ensure_config_dir(c, how) ==
    /\ pc = "init"
    /\ impl = "blocking"
    /\ cmd' = c
    /\ IF disk.state = "absent"
       THEN /\ disk' \in AfterSave(impl, disk, Config_default, how)
            /\ storeOps' = Append(storeOps, "write")
            /\ IF how = "ok"
               THEN pc' = "dispatch" /\ outcome' = outcome
               ELSE pc' = "done" /\ outcome' = Err("ConfigError")
       ELSE /\ how = "ok"
            /\ pc' = "dispatch"
            /\ UNCHANGED <<disk, storeOps, outcome>>
    /\ UNCHANGED <<impl, env, config, api_key, history, netLog, answer, stdout,
                   response, linesRead>>
    /\ UNCHANGED extractVars
    /\ UNCHANGED save_file

\* cmd_config, the fields the command line sets applied to a Config
cmd_config_apply(cfg, c) ==
    [api_key |-> IF IsSome(c.api_key) THEN c.api_key ELSE cfg.api_key,
     model |-> IF IsSome(c.set_model) THEN c.set_model ELSE cfg.model,
     max_tokens |-> IF IsSome(c.set_max_tokens) THEN c.set_max_tokens ELSE cfg.max_tokens,
     temperature |-> IF IsSome(c.set_temperature) THEN c.set_temperature ELSE cfg.temperature]

\* cmd_config --show: the key as it is displayed
cmd_config_display_key(key) ==
    IF key = <<>> THEN key
    ELSE IF Len(key) > 4 THEN <<"********">> \o SubSeq(key, Len(key) - 3, Len(key))
    ELSE <<"********">>

\* cmd_config: load the store; --show prints and returns; else the fields
\* given are set in the local Config and the store is written
cmd_config(how) ==
    /\ pc = "dispatch"
    /\ impl = "blocking"
    /\ cmd.name = "config"
    /\ pc' = "done"
    /\ IF ~load_config(disk).ok
       THEN /\ how = "ok"
            /\ outcome' = Err("ConfigError")
            /\ storeOps' = storeOps \o load_config_ops(disk)
            /\ UNCHANGED <<disk, config, stdout>>
       ELSE IF cmd.show
       THEN /\ how = "ok"
            /\ config' = load_config(disk).config
            /\ stdout' = Append(stdout,
                   [config' EXCEPT !.api_key = Some(cmd_config_display_key(Unwrap(config'.api_key)))])
            /\ outcome' = Ok
            /\ storeOps' = storeOps \o load_config_ops(disk)
            /\ UNCHANGED disk
       ELSE /\ config' = cmd_config_apply(load_config(disk).config, cmd)
            /\ disk' \in AfterSave(impl, disk, config', how)
            /\ storeOps' = storeOps \o load_config_ops(disk) \o <<"write">>
            /\ outcome' = IF how = "ok" THEN Ok ELSE Err("ConfigError")
            /\ UNCHANGED stdout
    /\ UNCHANGED <<impl, env, cmd, api_key, history, netLog, answer,
                   response, linesRead>>
    /\ UNCHANGED extractVars
    /\ UNCHANGED save_file

\* the system prompt of each command; ask takes --system
system_prompt_of(c) ==
    CASE c.name = "ask" -> UnwrapOr(c.system, <<"You are NimbusCode, an expert programming assistant.">>)
      [] c.name = "improve" -> <<"You are NimbusCode, an expert code reviewer and optimizer.">>
      [] c.name = "explain" -> <<"You are NimbusCode, an expert code analyst.">>
      [] c.name = "generate" -> <<"You are NimbusCode, an expert ", "python", " developer.">>
      [] c.name = "cloud" -> <<"You are NimbusCode, an expert in cloud architecture and deployment on ", "AWS">>
      [] c.name = "mobile" -> <<"You are NimbusCode, an expert in ", "cross-platform (React Native/Flutter)", " mobile app development.">>
      [] OTHER -> <<"You are NimbusCode, an expert programming assistant in an interactive session.">>

\* the prompt each single-shot command formats
prompt_of(c) ==
    CASE c.name = "ask" ->
            IF c.with_file
            THEN <<"File content:", "\n", Fence, "\n">> \o FileText
                   \o <<"\n", Fence, "\n", "\n", "Prompt: ">> \o ArgText
            ELSE ArgText
      [] c.name = "improve" ->
            <<"Please improve the following code.", Fence, "\n">> \o FileText \o <<"\n", Fence>>
      [] c.name = "explain" ->
            <<"Please explain the following code in detail:", Fence, "\n">> \o FileText \o <<"\n", Fence>>
      [] c.name = "generate" -> <<"Generate ", "python", " code for the following:">> \o ArgText
      [] c.name = "cloud" -> <<"Generate ", "AWS", " cloud deployment code/instructions for:">> \o ArgText
      [] OTHER -> <<"Generate ", "cross-platform (React Native/Flutter)",
                    " mobile app development code/guidance for:">> \o ArgText

\* cmd_ask, cmd_improve, cmd_explain, cmd_generate, cmd_cloud, cmd_mobile
\* up to the request: a source file that does not exist ends the command,
\* else the prompt is formatted and query_openrouter is called
cmd_single_shot ==
    /\ pc = "dispatch"
    /\ impl = "blocking"
    /\ cmd.name \in SingleShot
    /\ IF cmd.with_file /\ ~cmd.file_ok
       THEN /\ outcome' = Err("IoError")
            /\ pc' = "done"
            /\ UNCHANGED <<netLog, storeOps>>
       ELSE query_openrouter(prompt_of(cmd), Some(system_prompt_of(cmd)))
    /\ UNCHANGED <<impl, disk, env, cmd, config, api_key, history, answer, stdout,
                   response, linesRead>>
    /\ UNCHANGED extractVars
    /\ UNCHANGED save_file

\* the same with the store file rewritten to d_key by another process
\* between the load_config and the get_api_key of query_openrouter
cmd_single_shot_racing(d_key) ==
    /\ pc = "dispatch"
    /\ impl = "blocking"
    /\ cmd.name \in SingleShot
    /\ ~(cmd.with_file /\ ~cmd.file_ok)
    /\ load_config(disk).ok
    /\ d_key # disk
    /\ query_openrouter_racing(prompt_of(cmd), Some(system_prompt_of(cmd)), d_key)
    /\ disk' = d_key
    /\ UNCHANGED <<impl, env, cmd, config, api_key, history, answer, stdout,
                   response, linesRead>>
    /\ UNCHANGED extractVars
    /\ UNCHANGED save_file

\* cmd_models, the filter for free models: pricing present and both
\* prices, which are f32 fields of OpenRouterPricing, equal to 0.0
free_models(data) ==
    SelectSeq(data, LAMBDA m :
        /\ IsSome(m.pricing)
        /\ as_f32(Unwrap(Unwrap(m.pricing).prompt)) = 0
        /\ as_f32(Unwrap(Unwrap(m.pricing).completion)) = 0)

\* an OpenRouterModelsResponse needs both prices wherever pricing is given
models_parse(data) ==
    IF \E i \in 1..Len(data) :
          /\ IsSome(data[i].pricing)
          /\ \/ Unwrap(data[i].pricing).prompt = None
             \/ Unwrap(data[i].pricing).completion = None
    THEN None ELSE Some(data)

\* cmd_models up to send()
cmd_models ==
    /\ pc = "dispatch"
    /\ impl = "blocking"
    /\ cmd.name = "models"
    /\ IF ~load_config(disk).ok
       THEN /\ outcome' = Err("ConfigError")
            /\ pc' = "done"
            /\ UNCHANGED netLog
       ELSE IF get_api_key(load_config(disk).config, env) = None
       THEN /\ outcome' = Err("CredentialMissing")
            /\ pc' = "done"
            /\ UNCHANGED netLog
       ELSE /\ netLog' = Append(netLog,
                    [endpoint |-> "models",
                     headers |-> Headers(
                         Some(Bearer(Unwrap(get_api_key(load_config(disk).config, env)))),
                         Some("application/json"), None, None),
                     model |-> None, messages |-> <<>>,
                     max_tokens |-> None, temperature |-> None])
            /\ pc' = "inflight"
            /\ UNCHANGED outcome
    /\ storeOps' = storeOps \o load_config_ops(disk)
    /\ UNCHANGED <<impl, disk, env, cmd, config, api_key, history, answer, stdout,
                   response, linesRead>>
    /\ UNCHANGED extractVars
    /\ UNCHANGED save_file

\* cmd_interactive, before the loop
cmd_interactive ==
    /\ pc = "dispatch"
    /\ impl = "blocking"
    /\ cmd.name = "interactive"
    /\ history' = <<>>
    /\ pc' = "awaiting"
    /\ UNCHANGED <<impl, disk, env, cmd, config, api_key, netLog, outcome, answer, stdout, storeOps,
                   response, linesRead>>
    /\ UNCHANGED extractVars
    /\ UNCHANGED save_file

\* the test of cmd_interactive with the empty line taken for a sentinel
is_sentinel_or_empty(user_input) ==
    \/ user_input = <<>>
    \/ to_lowercase(user_input) = Tok_exit
    \/ to_lowercase(user_input) = Tok_quit
    \/ to_lowercase(user_input) = Tok_q

\* the test that ends the loop of cmd_interactive
is_sentinel(user_input) ==
    \/ to_lowercase(user_input) = Tok_exit
    \/ to_lowercase(user_input) = Tok_quit
    \/ to_lowercase(user_input) = Tok_q

RECURSIVE join(_, _)
\* [String]::join
join(parts, sep) ==
    IF parts = <<>> THEN <<>>
    ELSE IF Len(parts) = 1 THEN parts[1]
    ELSE parts[1] \o sep \o join(Tail(parts), sep)

\* cmd_interactive: the whole history formatted into one prompt
full_prompt(h) ==
    join([i \in 1..Len(h) |->
             <<IF h[i].role = "user" THEN "User" ELSE "Assistant", ": ">> \o h[i].content],
         <<"\n", "\n">>)

\* cmd_interactive, one pass of the loop up to the request
cmd_interactive_read(read_ok, line) ==
    /\ pc = "awaiting"
    /\ linesRead' = IF read_ok THEN Append(linesRead, line) ELSE linesRead
    /\ impl = "blocking"
    /\ IF ~read_ok
       THEN /\ outcome' = Err("IoError")
            /\ pc' = "done"
            /\ UNCHANGED <<history, netLog, storeOps>>
       ELSE IF is_sentinel(trim(line))
       THEN /\ outcome' = Ok
            /\ pc' = "done"
            /\ UNCHANGED <<history, netLog, storeOps>>
       ELSE /\ UserTurns(history) < MaxTurns
            /\ history' = Append(history, Msg("user", trim(line)))
            /\ query_openrouter(full_prompt(history'), Some(system_prompt_of(cmd)))
    /\ UNCHANGED <<impl, disk, env, cmd, config, api_key, answer, stdout,
                   response>>
    /\ UNCHANGED extractVars
    /\ UNCHANGED save_file

\* the same with the store file rewritten to d_key by another process
\* between the load_config and the get_api_key of query_openrouter
cmd_interactive_read_racing(line, d_key) ==
    /\ pc = "awaiting"
    /\ impl = "blocking"
    /\ ~is_sentinel(trim(line))
    /\ UserTurns(history) < MaxTurns
    /\ load_config(disk).ok
    /\ d_key # disk
    /\ linesRead' = Append(linesRead, line)
    /\ history' = Append(history, Msg("user", trim(line)))
    /\ query_openrouter_racing(full_prompt(history'), Some(system_prompt_of(cmd)), d_key)
    /\ disk' = d_key
    /\ UNCHANGED <<impl, env, cmd, config, api_key, answer, stdout, response>>
    /\ UNCHANGED extractVars
    /\ UNCHANGED save_file

\* query_openrouter after send(): the error a response is turned into
\* (the status of a failed call is not kept), or Ok
query_openrouter_classify(resp) ==
    IF ~resp.transport_ok THEN Err("NetworkError")
    ELSE IF ~is_success(resp.status) THEN ErrApi(None, Some(resp.raw))
    ELSE IF resp.choices = None THEN Err("ParseError")
    ELSE IF Unwrap(resp.choices) = <<>> THEN Err("EmptyResponse")
    ELSE Ok

\* what a command run with --save writes: cmd_generate and cmd_improve
\* the first string extract_code_blocks returns (nothing when it returns
\* none), cmd_ask, cmd_cloud and cmd_mobile the whole response
save_content(c, text) ==
    IF c.name \in {"generate", "improve"}
    THEN (IF extract_code_blocks(text) # <<>> THEN Some(extract_code_blocks(text)[1])
          ELSE None)
    ELSE Some(text)

\* the rest of query_openrouter / cmd_models and of the command once the
\* response is in
query_openrouter_response(resp, how) ==
    /\ pc = "inflight"
    /\ response' = Some(resp)
    /\ impl = "blocking"
    /\ IF netLog[Len(netLog)].endpoint = "models"
       THEN /\ resp \in ModelsResponses
            /\ pc' = "done"
            /\ answer' = answer
            /\ save_file' = save_file
            /\ IF ~resp.transport_ok THEN outcome' = Err("NetworkError") /\ stdout' = stdout
               ELSE IF ~is_success(resp.status)
               THEN outcome' = ErrApi(None, Some(resp.raw)) /\ stdout' = stdout
               ELSE IF resp.data = None \/ models_parse(Unwrap(resp.data)) = None
               THEN outcome' = Err("ParseError") /\ stdout' = stdout
               ELSE /\ outcome' = Ok
                    /\ stdout' = Append(stdout,
                           [i \in 1..Len(free_models(Unwrap(resp.data))) |->
                               free_models(Unwrap(resp.data))[i].id])
       ELSE /\ resp \in CompletionResponses
            /\ IF query_openrouter_classify(resp) # Ok
               THEN /\ outcome' = query_openrouter_classify(resp)
                    /\ pc' = "done"
                    /\ UNCHANGED <<answer, stdout, save_file>>
               ELSE IF cmd.name = "interactive"
               THEN /\ answer' = Unwrap(resp.choices)[1].content
                    /\ pc' = "displaying"
                    /\ UNCHANGED <<outcome, stdout, save_file>>
               ELSE /\ answer' = Unwrap(resp.choices)[1].content
                    /\ stdout' = Append(stdout, answer')
                    /\ pc' = "done"
                    /\ IF cmd.save /\ save_content(cmd, answer') # None
                       THEN /\ save_file' \in AfterWrite(save_file,
                                                Unwrap(save_content(cmd, answer')), how)
                            /\ outcome' = IF how = "ok" THEN Ok ELSE Err("IoError")
                       ELSE /\ outcome' = Ok
                            /\ UNCHANGED save_file
    /\ UNCHANGED <<impl, disk, env, cmd, config, api_key, history, netLog, storeOps,
                   linesRead>>
    /\ UNCHANGED extractVars
    /\ (how # "ok") => (cmd.save /\ outcome' = Err("IoError"))

\* cmd_interactive with the reply inserted at the front of the history
\* in place of the push at its end
cmd_interactive_display_insert_front ==
    /\ pc = "displaying"
    /\ impl = "blocking"
    /\ history' = <<Msg("assistant", answer)>> \o history
    /\ stdout' = Append(stdout, answer)
    /\ pc' = "awaiting"
    /\ UNCHANGED <<impl, disk, env, cmd, config, api_key, netLog, outcome, answer, storeOps,
                   response, linesRead>>
    /\ UNCHANGED extractVars
    /\ UNCHANGED save_file

\* cmd_interactive, the end of a pass of the loop: push the reply, print it
cmd_interactive_display ==
    /\ pc = "displaying"
    /\ impl = "blocking"
    /\ history' = Append(history, Msg("assistant", answer))
    /\ stdout' = Append(stdout, answer)
    /\ pc' = "awaiting"
    /\ UNCHANGED <<impl, disk, env, cmd, config, api_key, netLog, outcome, answer, storeOps,
                   response, linesRead>>
    /\ UNCHANGED extractVars
    /\ UNCHANGED save_file

(* ------------------------------------------------------------------ *)
(* The documents extract_code_blocks is applied to.                     *)
(* ------------------------------------------------------------------ *)
\* the lines a document is made of: a blank line, fences of three and of
\* four backticks, fences with a tag of word characters and with a tag
\* that holds another character, a line of code, a line of prose
Blank == <<>>
Fence3 == <<Tick, Tick, Tick>>
Fence4 == <<Tick, Tick, Tick, Tick>>
Fence3Tag == <<Tick, Tick, Tick, "a">>
Fence3Plus == <<Tick, Tick, Tick, "+">>
CodeLine == <<"a">>
CodeLineIndented == <<" ", " ", "a">>
ProseLine == <<"P">>
LineKinds == {Blank, Fence3, Fence4, Fence3Tag, Fence3Plus, CodeLine, ProseLine}

\* lines of a free document
MaxLines == 5

\* the indentation a whole document may carry (columns)
Indentations == {0, 2}

\* every sequence of at most MaxLines lines
FreeDocuments == UNION { [1..n -> LineKinds] : n \in 0..MaxLines }

\* the fence that closes a block opened by `open`
ClosingOf(open) == IF open = Fence4 THEN Fence4 ELSE Fence3

\* documents of two fenced blocks: prose or nothing, a block, prose or a
\* blank line, a block; a block holds one line, or two lines of different
\* indentation around a blank one
Openings == {Fence3, Fence3Tag, Fence3Plus, Fence4}
Contents == {<<CodeLine>>, <<CodeLine, Blank, CodeLineIndented>>}
TwoBlockDocuments ==
    { pre \o <<o1>> \o c1 \o <<ClosingOf(o1)>> \o mid \o <<o2>> \o c2 \o <<ClosingOf(o2)>> :
        pre \in {<<>>, <<ProseLine>>}, o1 \in Openings, c1 \in Contents,
        mid \in {<<ProseLine>>, <<Blank>>}, o2 \in Openings, c2 \in Contents }

\* n columns of indentation
Spaces(n) == [i \in 1..n |-> " "]

\* the text of a document: every line indented by `indent` columns, a
\* line break between two lines, and one at the end when final_newline
RECURSIVE Render(_, _, _)
Render(lines, indent, final_newline) ==
    IF lines = <<>> THEN <<>>
    ELSE Spaces(indent) \o Head(lines)
         \o (IF Len(lines) > 1 \/ final_newline THEN <<"\n">> ELSE <<>>)
         \o Render(Tail(lines), indent, final_newline)

Documents ==
    { Render(d, n, f) : d \in FreeDocuments \cup TwoBlockDocuments,
                        n \in Indentations, f \in BOOLEAN }

\* a call of extract_code_blocks of the library
Call_lib_extract_code_blocks ==
    /\ extractor = "none"
    /\ extractor' = "lib"
    /\ code_blocks' = lib_extract_code_blocks(markdown_text)
    /\ UNCHANGED <<impl, disk, env, pc, cmd, config, api_key, history, netLog, outcome,
                   answer, stdout, storeOps, response, linesRead, markdown_text,
                   save_file>>

\* a call of extract_code_blocks of the binary
Call_extract_code_blocks ==
    /\ extractor = "none"
    /\ extractor' = "main"
    /\ code_blocks' = extract_code_blocks(markdown_text)
    /\ UNCHANGED <<impl, disk, env, pc, cmd, config, api_key, history, netLog, outcome,
                   answer, stdout, storeOps, response, linesRead, markdown_text,
                   save_file>>

\* extract_code_blocks as a function of its argument: a document is given
\* and one of the two functions is applied to it
InitExtract ==
    /\ impl = "blocking"
    /\ disk = StoreAbsent
    /\ env = None
    /\ pc = "done"
    /\ cmd = NoCmd
    /\ config = NoData
    /\ api_key = None
    /\ history = <<>>
    /\ netLog = <<>>
    /\ outcome = Running
    /\ answer = <<>>
    /\ stdout = <<>>
    /\ storeOps = <<>>
    /\ response = None
    /\ linesRead = <<>>
    /\ markdown_text \in Documents
    /\ extractor = "none"
    /\ code_blocks = <<>>
    /\ save_file = None

NextExtract ==
    \/ Call_lib_extract_code_blocks
    \/ Call_extract_code_blocks

SpecExtract == InitExtract /\ [][NextExtract]_vars

(* ------------------------------------------------------------------ *)
(* The specification.                                                   *)
(* ------------------------------------------------------------------ *)
Next ==
    \/ \E c \in NimbusCode_Commands : NimbusCode_new(c)
    \/ \E how \in SaveOutcomes : NimbusCode_set_api_key(how)
    \/ NimbusCode_single_shot
    \/ NimbusCode_list_models
    \/ NimbusCode_interactive
    \/ \E ok \in BOOLEAN, line \in Lines : NimbusCode_interactive_read(ok, line)
    \/ \E resp \in CompletionResponses \cup ModelsResponses, how \in SaveOutcomes :
           NimbusCode_response(resp, how)
    \/ NimbusCode_interactive_display
    \/ \E c \in Commands, how \in SaveOutcomes : ensure_config_dir(c, how)
    \/ \E how \in SaveOutcomes : cmd_config(how)
    \/ cmd_single_shot
    \/ cmd_models
    \/ cmd_interactive
    \/ \E ok \in BOOLEAN, line \in Lines : cmd_interactive_read(ok, line)
    \/ \E resp \in CompletionResponses \cup ModelsResponses, how \in SaveOutcomes :
           query_openrouter_response(resp, how)
    \/ cmd_interactive_display

Spec == Init /\ [][Next]_vars


(* ------------------------------------------------------------------ *)
(* The invocation while another process rewrites the store file.        *)
(* ------------------------------------------------------------------ *)
\* the store file as the other process writes it
OtherStore(im) ==
    IF im = "async"
    THEN StoreOf([NoData EXCEPT !.api_key = Some(KeyNew), !.model = Some("other/model")])
    ELSE StoreOf([api_key |-> Some(KeyNew), model |-> Some("other/model"),
                  max_tokens |-> Some(64), temperature |-> Some("1.0")])

\* another process rewrites the store file while the invocation runs
Other_process_writes_store ==
    /\ pc \in {"dispatch", "awaiting", "inflight", "displaying"}
    /\ disk # OtherStore(impl)
    /\ disk' = OtherStore(impl)
    /\ UNCHANGED <<impl, env, pc, cmd, config, api_key, history, netLog, outcome,
                   answer, stdout, storeOps, response, linesRead>>
    /\ UNCHANGED extractVars
    /\ UNCHANGED save_file

\* the invocation with or without a file at the save path before it runs
InitSave ==
    /\ InitProgram
    /\ save_file \in {None, Some(OldFile)}

SpecSave == InitSave /\ [][Next]_vars

NextExt ==
    \/ Next
    \/ Other_process_writes_store
    \/ cmd_single_shot_racing(OtherStore(impl))
    \/ \E line \in Lines : cmd_interactive_read_racing(line, OtherStore(impl))

SpecExt == Init /\ [][NextExt]_vars

(* ------------------------------------------------------------------ *)
(* Vocabulary of the properties.                                        *)
(* ------------------------------------------------------------------ *)
\* the commands that need the remote service
ServiceCommands == SingleShot \cup {"interactive", "models"}

\* a credential source holds a credential: it is set and not empty
Present(o) == IsSome(o) /\ Unwrap(o) # <<>>

\* no credential in the store nor in the environment (neither program
\* takes a credential for one invocation on its command line)
NoCredentialFound == ~Present(disk.data.api_key) /\ ~Present(env)

\* the credential of the source that comes first in the order
\* store > environment
ExpectedCredential ==
    IF Present(disk.data.api_key) THEN Unwrap(disk.data.api_key) ELSE UnwrapOr(env, <<>>)

\* the indices of the completion requests issued
CompletionCalls == {i \in 1..Len(netLog) : netLog[i].endpoint = "chat/completions"}

\* the sentinel tokens as the specification lists them
SpecSentinel(line) == to_lowercase(trim(line)) \in {Tok_exit, Tok_quit, Tok_q}
NonSentinels(ls) == Cardinality({i \in 1..Len(ls) : ~SpecSentinel(ls[i])})

\* the conversation without the system prompt
ConversationState == IF impl = "async" THEN Tail(history) ELSE history

\* the last response is a 2xx completion response whose body parses
LastIs2xxCompletion ==
    /\ IsSome(response)
    /\ netLog[Len(netLog)].endpoint = "chat/completions"
    /\ Unwrap(response).transport_ok
    /\ is_success(Unwrap(response).status)
    /\ IsSome(Unwrap(response).choices)

(* ------------------------------------------------------------------ *)
(* Properties.                                                          *)
(* ------------------------------------------------------------------ *)
\* C1: a command that needs the remote service, run when no credential is
\* found (store and environment hold none), issues no request, and where
\* it gets to its request it fails with CredentialMissing.  (A run that
\* ends on an unreadable store or source file, or an interactive session
\* left by a sentinel before any request, has no request to fail.)
C1_NoCredentialNoNetwork ==
    (cmd.name \in ServiceCommands /\ NoCredentialFound) =>
        /\ netLog = <<>>
        /\ pc \notin {"inflight", "displaying"}
        /\ ( /\ pc = "done"
             /\ outcome.tag \notin {"ConfigError", "IoError"}
             /\ ~(cmd.name = "interactive" /\ outcome = Ok) )
           => outcome.tag = "CredentialMissing"

\* C2: the credential every request carries is that of the first source
\* holding one, in the order store > environment
C2_CredentialPrecedence ==
    \A i \in 1..Len(netLog) :
        (Present(disk.data.api_key) \/ Present(env)) =>
            netLog[i].headers.Authorization = Some(Bearer(ExpectedCredential))

\* C3: a completion request carries the --model override when given, else
\* the stored model, else "openrouter/auto"; it carries the stored
\* max_tokens and temperature, else 1024 and 0.7; the default credential
\* is empty
C3_RequestParameters ==
    /\ Config_default.api_key = Some(<<>>)
    /\ \A i \in CompletionCalls :
        /\ netLog[i].model =
               Some(IF IsSome(cmd.model) THEN Unwrap(cmd.model)
                    ELSE UnwrapOr(disk.data.model, DEFAULT_MODEL))
        /\ netLog[i].max_tokens = Some(UnwrapOr(disk.data.max_tokens, DEFAULT_MAX_TOKENS))
        /\ netLog[i].temperature = Some(UnwrapOr(disk.data.temperature, DEFAULT_TEMPERATURE))

\* C4: setting the credential is atomic: the step either succeeds and the
\* store, the in-memory configuration and the key in use all hold the new
\* credential, or fails and all of them are as before
C4_SetCredentialAtomic ==
    [][ ( /\ pc = "dispatch"
          /\ cmd.name = "config"
          /\ IsSome(cmd.api_key)
          /\ ~cmd.show
          /\ pc' = "done" )
        => \/ /\ outcome' = Ok
              /\ disk'.data.api_key = cmd.api_key
              /\ config'.api_key = cmd.api_key
              /\ impl = "async" => api_key' = cmd.api_key
           \/ /\ outcome' # Ok
              /\ disk' = disk
              /\ config'.api_key = (IF impl = "async" THEN config.api_key ELSE disk.data.api_key)
              /\ api_key' = api_key ]_vars

\* C5: a 2xx completion response with no choice ends the call with
\* EmptyResponse; one with a choice makes the call succeed with the
\* content of the first choice as the answer
C5_EmptyChoicesIsEmptyResponse ==
    LastIs2xxCompletion =>
        IF Unwrap(Unwrap(response).choices) = <<>>
        THEN pc = "done" /\ outcome.tag = "EmptyResponse"
        ELSE /\ answer = Unwrap(Unwrap(response).choices)[1].content
             /\ outcome.tag \notin {"EmptyResponse", "Panic", "ParseError", "ApiError", "NetworkError"}

\* C6: a response that is not 2xx ends the call (completion or models)
\* with an ApiError holding the status code and the raw body
C6_ApiErrorKeepsStatusAndBody ==
    ( /\ IsSome(response)
      /\ Unwrap(response).transport_ok
      /\ ~is_success(Unwrap(response).status) )
    => /\ pc = "done"
       /\ outcome = ErrApi(Some(Unwrap(response).status), Some(Unwrap(response).raw))

\* C7: no retries: a single-shot command issues at most one request, an
\* interactive session at most one per input that is no sentinel, and a
\* session left by a sentinel with no call failed has issued exactly one
\* per such input
C7_OneRequestPerCall ==
    /\ cmd.name \in SingleShot \cup {"models"} => Len(netLog) <= 1
    /\ cmd.name = "interactive" => Len(netLog) <= NonSentinels(linesRead)
    /\ (cmd.name = "interactive" /\ pc = "done" /\ outcome = Ok)
         => Len(netLog) = NonSentinels(linesRead)

\* C8: every completion request holds at most one system message, which
\* is the first, followed by one or more user / assistant messages
C8_SystemMessageFirst ==
    \A i \in CompletionCalls :
        LET m == netLog[i].messages
            rest == IF m # <<>> /\ m[1].role = "system" THEN Tail(m) ELSE m
        IN  /\ rest # <<>>
            /\ \A j \in 1..Len(rest) : rest[j].role \in {"user", "assistant"}

\* C8 witness: an interactive session has issued its second request, whose
\* first message is the system prompt
C8_Witness ==
    /\ cmd.name = "interactive"
    /\ Len(netLog) = 2
    /\ netLog[2].messages[1].role = "system"
    /\ Len(netLog[2].messages) >= 2

\* C9: the request of the n-th turn of an interactive session is the
\* system prompt followed by the whole conversation, one message per
\* entry, in order: user_1, assistant_1, ..., user_n
C9_RequestCarriesHistory ==
    (cmd.name = "interactive" /\ pc = "inflight") =>
        /\ netLog[Len(netLog)].messages =
               <<netLog[1].messages[1]>> \o ConversationState
        /\ netLog[1].messages[1].role = "system"
        /\ Len(netLog[Len(netLog)].messages) = 2 * Len(netLog)

\* C10: an input line that, trimmed and lower-cased, is "exit", "quit" or
\* "q" ends the session: nothing is appended for it and no request is made
C10_SentinelExits ==
    (cmd.name = "interactive" /\ linesRead # <<>> /\ SpecSentinel(linesRead[Len(linesRead)]))
    => /\ pc = "done"
       /\ outcome = Ok
       /\ Len(ConversationState) = 2 * NonSentinels(linesRead)
       /\ Len(netLog) = NonSentinels(linesRead)

\* the response received last is a failure of the request: the transport
\* failed, the status is not 2xx, or the body holds no choice
LastIsRequestFailure ==
    /\ IsSome(response)
    /\ netLog[Len(netLog)].endpoint = "chat/completions"
    /\ \/ ~Unwrap(response).transport_ok
       \/ ~is_success(Unwrap(response).status)
       \/ Unwrap(response).choices = Some(<<>>)

\* the error of the taxonomy a failed response stands for
ErrorOfFailure(resp) ==
    IF ~resp.transport_ok THEN "NetworkError"
    ELSE IF ~is_success(resp.status) THEN "ApiError"
    ELSE "EmptyResponse"

\* an interactive session has begun (its conversation exists)
InSession ==
    /\ cmd.name = "interactive"
    /\ pc \in {"awaiting", "inflight", "displaying"}
         \/ (pc = "done" /\ (linesRead # <<>> \/ outcome.tag \in {"Ok", "IoError"}))

\* C11: a request of an interactive session that fails (transport error,
\* status other than 2xx, no choice) ends the session with that error:
\* the session is over, the outcome is the error of the failure, no line
\* was read and no request was made after it, and the conversation ends
\* with the user message of the failed turn (no assistant message for it)
C11_FailureAbortsSession ==
    (cmd.name = "interactive" /\ LastIsRequestFailure) =>
        /\ pc = "done"
        /\ outcome.tag = ErrorOfFailure(Unwrap(response))
        /\ Len(linesRead) = Len(netLog)
        /\ Len(ConversationState) = 2 * Len(netLog) - 1
        /\ ConversationState[Len(ConversationState)].role = "user"

\* the roles of a conversation alternate user, assistant, starting with user
Alternates(h) ==
    \A i \in 1..Len(h) : h[i].role = (IF i % 2 = 1 THEN "user" ELSE "assistant")

\* C12: the conversation of a session is append-only: it starts empty;
\* every step leaves it as it is or appends one entry at its end; its
\* roles alternate user, assistant; and while the session waits for input
\* it holds whole turns only (an even number of entries)
C12_HistoryAppendOnly ==
    /\ [](InSession => Alternates(ConversationState))
    /\ []((InSession /\ pc = "awaiting") => Len(ConversationState) % 2 = 0)
    /\ [][ /\ (~InSession /\ InSession') => ConversationState' = <<>>
           /\ (InSession /\ InSession') =>
                 \/ ConversationState' = ConversationState
                 \/ /\ Len(ConversationState') = Len(ConversationState) + 1
                    /\ SubSeq(ConversationState', 1, Len(ConversationState)) = ConversationState
         ]_vars

\* C12 witness: a session that went through two whole turns waits for input
C12_Witness ==
    /\ cmd.name = "interactive"
    /\ pc = "awaiting"
    /\ Len(ConversationState) = 4

(* ------------------------------------------------------------------ *)
(* Vocabulary of the properties of extract: the fence pairs of a        *)
(* document as the specification defines them.                          *)
(* ------------------------------------------------------------------ *)
\* the lines of the document, without their line breaks
DocLines ==
    LET ls == scan_lines(markdown_text, 1, <<>>)
    IN  [i \in 1..Len(ls) |-> ls[i].text]

\* the indentation the lines `dl` all carry
IndentOf(dl) ==
    IF dl = <<>> THEN 0
    ELSE LET ns == {n \in Indentations : \A i \in 1..Len(dl) : run_length(dl[i], 1, " ") >= n}
         IN  CHOOSE n \in ns : \A m \in ns : m <= n

\* the indentation the whole document carries
DocIndent == IndentOf(DocLines)

\* the lines with the indentation of the document removed
Dedented ==
    LET dl == DocLines
        n == IndentOf(dl)
    IN  [i \in 1..Len(dl) |-> SubSeq(dl[i], n + 1, Len(dl[i]))]

\* a line that opens a block: three or more backticks, then a tag or nothing
OpensBlock(line) ==
    /\ run_length(line, 1, Tick) >= 3
    /\ \A j \in (run_length(line, 1, Tick) + 1)..Len(line) : line[j] # Tick

\* a line that consists of backticks only, three or more
FenceOnly(line) == Len(line) >= 3 /\ run_length(line, 1, Tick) = Len(line)

\* the fence pairs of a sequence of lines: `blocks` holds the lines
\* strictly between the fences of every pair, in order; `unterminated`
\* tells that the last opening fence has no closing one; `short` tells
\* that a fence shorter than the opening one stands inside a block
RECURSIVE FencePairs(_, _, _, _, _, _)
FencePairs(lines, i, open, k, cur, acc) ==
    IF i > Len(lines) THEN [blocks |-> acc.blocks, short |-> acc.short, unterminated |-> open]
    ELSE IF ~open
    THEN IF OpensBlock(lines[i])
         THEN FencePairs(lines, i + 1, TRUE, run_length(lines[i], 1, Tick), <<>>, acc)
         ELSE FencePairs(lines, i + 1, FALSE, 0, <<>>, acc)
    ELSE IF FenceOnly(lines[i]) /\ Len(lines[i]) >= k
    THEN FencePairs(lines, i + 1, FALSE, 0, <<>>,
                    [acc EXCEPT !.blocks = Append(acc.blocks, cur)])
    ELSE FencePairs(lines, i + 1, TRUE, k, Append(cur, lines[i]),
                    [acc EXCEPT !.short = acc.short \/ FenceOnly(lines[i])])

Pairs == FencePairs(Dedented, 1, FALSE, 0, <<>>, [blocks |-> <<>>, short |-> FALSE])

\* the strings the specification has extract return: the lines of every
\* pair joined by line breaks
Expected ==
    LET bs == Pairs.blocks
    IN  [i \in 1..Len(bs) |-> join(bs[i], <<"\n">>)]

\* every opening fence of the document has its closing fence
WellFormed == ~Pairs.unterminated

\* every fence pair holds a line or more
NoEmptyPair == \A i \in 1..Len(Pairs.blocks) : Pairs.blocks[i] # <<>>

\* extract has run on a document that carries no indentation
Extracted == extractor # "none" /\ DocIndent = 0

\* the text s holds the character c
Holds(s, c) == \E j \in 1..Len(s) : s[j] = c

\* C13: on a document of N >= 0 well-formed fence pairs (a pair with no
\* line between its fences counts) extract returns N strings, in the order
\* of the document, each the text between its fences; on a document with
\* no backtick it returns the empty sequence
C13_OneStringPerFencePair ==
    LET e == Expected
    IN  (Extracted /\ WellFormed) =>
            /\ Len(code_blocks) = Len(e)
            /\ \A i \in 1..Len(code_blocks) : code_blocks[i] = e[i]
            /\ ~Holds(markdown_text, Tick) => code_blocks = <<>>

\* C14: every string extract returns is the lines strictly between the
\* two fences joined by line breaks, with no line break at its end, blank
\* lines kept, and nothing of the tag of the opening line, whatever the
\* tag is made of (documents whose pairs all hold a line or more)
C14_BlockIsLinesJoined ==
    LET bs == Pairs.blocks
    IN  (Extracted /\ WellFormed /\ NoEmptyPair /\ bs # <<>>) =>
            /\ Len(code_blocks) = Len(bs)
            /\ \A i \in 1..Len(code_blocks) :
                /\ code_blocks[i] = join(bs[i], <<"\n">>)
                /\ bs[i][Len(bs[i])] # Blank => code_blocks[i][Len(code_blocks[i])] # "\n"
                /\ ~Holds(code_blocks[i], "+")

\* C15: extract_code_blocks of the library on a document whose lines all
\* carry the same indentation returns one string per fence pair, in
\* order: the lines of the pair with that indentation removed, the
\* indentation between them kept, the tag left out
C15_IndentedDocument ==
    LET e == Expected
    IN  (extractor = "lib" /\ DocIndent > 0 /\ WellFormed /\ NoEmptyPair) =>
            /\ Len(code_blocks) = Len(e)
            /\ \A i \in 1..Len(code_blocks) : code_blocks[i] = e[i]

\* C16: an opening fence with no closing fence before the end of the
\* input gives no string; the pairs closed before it give theirs
C16_UnterminatedFenceGivesNoBlock ==
    LET e == Expected
    IN  (Extracted /\ Pairs.unterminated) =>
            /\ Len(code_blocks) = Len(e)
            /\ \A i \in 1..Len(code_blocks) : code_blocks[i] \in {e[i], e[i] \o <<"\n">>}

\* C17: no string extract returns holds text from outside every fence
\* pair: in a document whose prose lines all stand outside the pairs, no
\* string returned holds a character of prose
C17_NothingFromOutsideFences ==
    LET e == Expected
    IN  (Extracted /\ \A i \in 1..Len(e) : ~Holds(e[i], "P")) =>
            \A i \in 1..Len(code_blocks) : ~Holds(code_blocks[i], "P")

\* C18: a block opened by k backticks is closed only by a line of k or
\* more backticks: a shorter fence inside it does not end it and is part
\* of the string returned for it
C18_ShorterFenceDoesNotClose ==
    LET p == Pairs
        e == Expected
    IN  (Extracted /\ ~p.unterminated /\ NoEmptyPair /\ p.short) =>
            /\ Len(code_blocks) = Len(e)
            /\ \A i \in 1..Len(code_blocks) : code_blocks[i] \in {e[i], e[i] \o <<"\n">>}

\* how often the store file was read, and written, so far
StoreReads == Cardinality({i \in 1..Len(storeOps) : storeOps[i] = "read"})
StoreWrites == Cardinality({i \in 1..Len(storeOps) : storeOps[i] = "write"})

\* C19: one invocation reads the persisted store once (never twice, and
\* once before a request goes out when there is a store file), and writes
\* it only in the operation that sets the credential: no other command and
\* no start-up step writes it
C19_StoreReadOnceWrittenBySetCredential ==
    /\ StoreReads <= 1
    /\ (netLog # <<>> /\ disk.state = "ok") => StoreReads = 1
    /\ StoreWrites > 0 =>
          /\ StoreWrites = 1
          /\ cmd.name = "config"
          /\ IsSome(cmd.api_key)

\* the stores an invocation can find: those it may start with and the
\* one another process writes
PossibleStores == {StoreAbsent} \cup IniStores \cup JsonStores \cup {OtherStore(impl)}

\* the parameters a request has when they are resolved from the store d
\* (the defaults where d holds none; the async program sends no
\* max_tokens and no temperature)
ParametersFrom(d, req) ==
    /\ \/ IsSome(cmd.model) /\ req.model = cmd.model
       \/ req.model = d.data.model
       \/ d.data.model = None /\ req.model \in {Some(DEFAULT_MODEL), Some(NimbusCode_DEFAULT_MODEL)}
    /\ req.max_tokens \in {None, d.data.max_tokens}
    /\ req.temperature \in {None, d.data.temperature}

\* the credential of a request is the one the store d or the environment holds
CredentialFrom(d, req) ==
    \/ Present(d.data.api_key) /\ req.headers.Authorization = Some(Bearer(Unwrap(d.data.api_key)))
    \/ IsSome(env) /\ req.headers.Authorization = Some(Bearer(Unwrap(env)))

\* C20: the Config is resolved once for an invocation: all its requests
\* carry the same credential, model, max_tokens and temperature, also
\* when another process rewrites the store meanwhile; and the credential
\* and the parameters of one request come from one state of the store
C20_ConfigResolvedOnce ==
    /\ \A i, j \in CompletionCalls :
          /\ netLog[i].headers.Authorization = netLog[j].headers.Authorization
          /\ netLog[i].model = netLog[j].model
          /\ netLog[i].max_tokens = netLog[j].max_tokens
          /\ netLog[i].temperature = netLog[j].temperature
    /\ \A i \in CompletionCalls :
          \E d \in PossibleStores :
              IF d.state = "absent"
              THEN ParametersFrom(StoreOf(IF impl = "async" THEN NoData ELSE Config_default), netLog[i])
                   /\ IsSome(env) /\ netLog[i].headers.Authorization = Some(Bearer(Unwrap(env)))
              ELSE ParametersFrom(d, netLog[i]) /\ CredentialFrom(d, netLog[i])

\* the entries the specification lists as free: pricing present and both
\* prices exactly 0.0
FreeEntries(data) ==
    SelectSeq(data, LAMBDA m :
        /\ IsSome(m.pricing)
        /\ Unwrap(m.pricing).prompt = Some(0)
        /\ Unwrap(m.pricing).completion = Some(0))

\* the models request was answered and the listing was printed
ModelsListed ==
    /\ cmd.name = "models"
    /\ pc = "done"
    /\ outcome = Ok
    /\ IsSome(response)
    /\ IsSome(Unwrap(response).data)

\* C21: the listing of free models holds the ids of exactly the entries
\* of the response whose pricing is present with both prices exactly 0.0,
\* in the order of the response; an entry with no pricing or with one
\* price that is not zero is not listed
C21_FreeModelsView ==
    ModelsListed =>
        LET data == Unwrap(Unwrap(response).data)
            free == FreeEntries(data)
        IN  stdout = <<[i \in 1..Len(free) |-> free[i].id]>>

\* the four headers of the specification on one request
CarriesAllHeaders(req) ==
    /\ IsSome(req.headers.Authorization)
    /\ \E key \in {KeyEmpty, KeyStored, KeyEnv, KeyNew} :
           Unwrap(req.headers.Authorization) = Bearer(key)
    /\ req.headers.ContentType = Some("application/json")
    /\ IsSome(req.headers.HTTPReferer)
    /\ IsSome(req.headers.XTitle)

\* C22: every call to the service, the completion POST and the models
\* GET, carries Authorization: Bearer <credential>, Content-Type:
\* application/json, a referer header and a title header
C22_HeadersOnEveryCall ==
    \A i \in 1..Len(netLog) : CarriesAllHeaders(netLog[i])

\* the store file the invocation found (it has written none) cannot be
\* read or parsed; a JSON store with a field missing does not parse,
\* while in an ini store a missing key is no parse error
StoreUnreadable ==
    /\ StoreWrites = 0
    /\ \/ disk.state = "corrupt"
       \/ /\ impl = "blocking"
          /\ disk.state = "ok"
          /\ \E f \in DOMAIN disk.data : disk.data[f] = None

AssistantTurns(h) == Cardinality({i \in 1..Len(h) : h[i].role = "assistant"})

\* the states of the session: AwaitingInput, Sending, Displaying, Exited
AwaitingInput == cmd.name = "interactive" /\ pc = "awaiting"
Sending == cmd.name = "interactive" /\ pc = "inflight"
Displaying == cmd.name = "interactive" /\ pc = "displaying"

\* C24: the interactive session cycles AwaitingInput -> Sending ->
\* Displaying -> AwaitingInput (leaving to Exited from AwaitingInput or
\* Sending only) with at most one request outstanding: a request starts
\* and a line is read in AwaitingInput only; the assistant message is
\* appended in Displaying only, after a 2xx response, and it holds the
\* reply; a line is read only when every request made has its reply in the
\* history and on the output
C24_InteractiveCycle ==
    /\ [](cmd.name = "interactive" =>
            /\ Len(netLog) - AssistantTurns(history) \in {0, 1}
            /\ AwaitingInput => Len(netLog) = AssistantTurns(history)
            /\ (Sending \/ Displaying) => Len(netLog) = AssistantTurns(history) + 1)
    /\ [][ cmd.name = "interactive" =>
            /\ AwaitingInput => pc' \in {"inflight", "done"}
            /\ Sending => /\ pc' \in {"displaying", "done"}
                          /\ linesRead' = linesRead
                          /\ netLog' = netLog
                          /\ history' = history
            /\ Displaying => /\ pc' = "awaiting"
                             /\ linesRead' = linesRead
                             /\ netLog' = netLog
            /\ netLog' # netLog => /\ AwaitingInput
                                   /\ pc' = "inflight"
                                   /\ Len(netLog') = Len(netLog) + 1
            /\ AssistantTurns(history') # AssistantTurns(history) =>
                   /\ Displaying
                   /\ LastIs2xxCompletion
                   /\ history' = Append(history,
                          Msg("assistant", Unwrap(Unwrap(response).choices)[1].content))
            /\ linesRead' # linesRead =>
                   /\ AwaitingInput
                   /\ AssistantTurns(history) = UserTurns(history)
                   /\ AssistantTurns(history) = Len(netLog)
                   /\ Len(stdout) = Len(netLog)
                   /\ \A i \in 1..Len(stdout) :
                          stdout[i] = ConversationState[2 * i].content
         ]_vars

\* the async session has read a third line after two whole turns
C24_Witness ==
    /\ impl = "async"
    /\ cmd.name = "interactive"
    /\ Len(linesRead) = 3
    /\ Len(stdout) = 2
    /\ AssistantTurns(history) = 2

\* the session is over
Exited == cmd.name = "interactive" /\ pc = "done"

\* the outcomes of a request that failed: before it went out (no
\* credential, store unreadable), on the wire, or on its response
RequestFailures ==
    {"CredentialMissing", "ConfigError", "NetworkError", "ApiError", "ParseError",
     "EmptyResponse", "Panic"}

\* C25: the session is left only through a sentinel, a failed read or a
\* failed request; a line that is empty once trimmed (what a read at end of
\* input yields too) is appended as a user message of empty content and
\* sent as a completion request, so a session whose input is exhausted
\* goes on sending requests and is not left while its requests succeed
C25_EmptyLineIsSent ==
    /\ [](Exited =>
            \/ /\ outcome = Ok
               /\ linesRead # <<>>
               /\ SpecSentinel(linesRead[Len(linesRead)])
            \/ outcome.tag = "IoError"
            \/ outcome.tag \in RequestFailures)
    /\ [][ (AwaitingInput /\ linesRead' # linesRead
              /\ trim(linesRead'[Len(linesRead')]) = <<>>) =>
            /\ history' = Append(history, Msg("user", <<>>))
            /\ \/ /\ pc' = "inflight"
                  /\ Len(netLog') = Len(netLog) + 1
                  /\ netLog'[Len(netLog')].endpoint = "chat/completions"
                  /\ LET ms == netLog'[Len(netLog')].messages
                     IN  /\ ms[Len(ms)].role = "user"
                         /\ ms[Len(ms)].content =
                               (IF impl = "async" THEN <<>> ELSE full_prompt(history'))
               \/ /\ pc' = "done"
                  /\ outcome'.tag \in {"CredentialMissing", "ConfigError"}
                  /\ netLog' = netLog
         ]_vars

\* at the end of input twice over: the empty line was read a second time,
\* after a whole turn, and its request is out
C25_Witness ==
    /\ cmd.name = "interactive"
    /\ impl = "blocking"
    /\ linesRead = << <<>>, <<>> >>
    /\ pc = "inflight"
    /\ Len(netLog) = 2
    /\ history[Len(history)] = Msg("user", <<>>)

\* generate or improve was run with a save target and its request
\* returned an answer
SaveRun ==
    /\ cmd.name \in {"generate", "improve"}
    /\ cmd.save
    /\ pc = "done"
    /\ LastIs2xxCompletion
    /\ Unwrap(response).choices # Some(<<>>)

\* C26: generate or improve run with a save target writes the first code
\* block the extractor returns for the answer, and that only: when the
\* write succeeded the file holds exactly that block, and the file at the
\* save path changes in no step but the write of a block (an answer with
\* no code block leaves the file as it was, there or not)
C26_SaveWritesFirstBlock ==
    /\ []((SaveRun /\ outcome = Ok /\ extract_code_blocks(answer) # <<>>)
            => save_file = Some(extract_code_blocks(answer)[1]))
    /\ [][ (cmd'.name \in {"generate", "improve"} /\ save_file' # save_file) =>
               /\ SaveRun'
               /\ extract_code_blocks(answer') # <<>>
               /\ \/ save_file' = Some(extract_code_blocks(answer')[1])
                  \/ outcome'.tag = "IoError"
         ]_vars

\* a stored field after configure: the value supplied, else the old one
FieldAfter(old, supplied) == IF IsSome(supplied) THEN supplied ELSE old

\* the stored fields after configure was run as `c` on the fields `old`
ConfigureWrites(old, c) ==
    [api_key |-> FieldAfter(old.api_key, c.api_key),
     model |-> FieldAfter(old.model, c.set_model),
     max_tokens |-> FieldAfter(old.max_tokens, c.set_max_tokens),
     temperature |-> FieldAfter(old.temperature, c.set_temperature)]

\* the characters of the credential in a displayed credential
DisplayedOfKey(shown) == SelectSeq(shown, LAMBDA ch : ch # "********")

\* C27: configure changes exactly the fields supplied and keeps the other
\* stored fields; run with the show flag it does not write the store,
\* whatever else is supplied; and what it displays of the stored
\* credential is at most its last four characters
C27_ConfigureChangesSuppliedFields ==
    /\ [][ (cmd'.name = "config" /\ disk' # disk) =>
               /\ ~cmd'.show
               /\ outcome' = Ok => disk' = StoreOf(ConfigureWrites(disk.data, cmd'))
         ]_vars
    /\ []((cmd.name = "config" /\ cmd.show) => StoreWrites = 0)
    /\ []((cmd.name = "config" /\ stdout # <<>>) =>
            LET key == UnwrapOr(disk.data.api_key, <<>>)
                tail == DisplayedOfKey(Unwrap(stdout[1].api_key))
            IN  /\ Len(tail) <= 4
                /\ Len(tail) <= Len(key)
                /\ tail = SubSeq(key, Len(key) - Len(tail) + 1, Len(key)))

====
